---- MODULE Spec2Model ----
(***************************************************************************)
(* A model of the knowledge block manager (manager.py) and of the toolkit  *)
(* converter (converter.py).                                               *)
(*                                                                         *)
(* Python values are tagged records [k |-> kind, v |-> payload]:           *)
(*   "str"   a sequence of one-character strings                           *)
(*   "int"   an integer          "bool"  a boolean                         *)
(*   "float" a normalised fraction <<numerator, denominator>>              *)
(*   "list" / "tuple"  a sequence of values                                *)
(*   "dict"  a function from field names to values                         *)
(* A block is the payload of a dict: a function from field names to values.*)
(***************************************************************************)
EXTENDS Integers, Sequences, FiniteSets, TLC

VARIABLES
    schema,     \* self.schema, loaded once by __init__
    store,      \* the files under data_dir: <<domain, id>> -> stored block
    now,        \* the last reading of datetime.datetime.now()
    ops,        \* number of create/update/delete/feedback/usage calls so far
    last,       \* the last manager call: arguments, outcome, store before it
    v_in,       \* validator run: the record and the schema handed to it
    v_out,      \* validator run: what _validate_block did
    c_dir,      \* converter run: whether TOOLKITS_DIR exists
    docs,       \* converter run: toolkit_files, the enumerated documents
    c_i,        \* converter run: index of the next document of the loop
    c_pc,       \* converter run: position in main()
    c_files,    \* converter run: output files, <<domain, id>> -> content
    c_log       \* converter run: one entry per loop iteration

vars == <<schema, store, now, ops, last, v_in, v_out, c_dir, docs, c_i, c_pc, c_files,
          c_log>>
mgrVars == <<schema, store, now, ops, last>>
valVars == <<v_in, v_out>>
convVars == <<c_dir, docs, c_i, c_pc, c_files, c_log>>

-----------------------------------------------------------------------------
(* Bounds of the model *)

MaxOps == 3         \* store-changing manager calls in one behaviour
MaxDocs == 3        \* documents in one converter run

-----------------------------------------------------------------------------
(* Python values *)

PyStr(s) == [k |-> "str", v |-> s]
PyInt(n) == [k |-> "int", v |-> n]
PyBool(b) == [k |-> "bool", v |-> b]
PyList(s) == [k |-> "list", v |-> s]
PyTuple(s) == [k |-> "tuple", v |-> s]
PyDict(f) == [k |-> "dict", v |-> f]

RECURSIVE Gcd(_, _)
Gcd(a, b) == IF b = 0 THEN a ELSE Gcd(b, a % b)

\* the float nearest n/d, kept as the fraction in lowest terms (d > 0, n >= 0)
PyFloat(n, d) == LET g == Gcd(n, d) IN [k |-> "float", v |-> <<n \div g, d \div g>>]

EmptyDict == [f \in {} |-> PyInt(0)]

Has(block, field) == field \in DOMAIN block

\* dict.update(other) and block[field] = value
Merge(block, other) == other @@ block
Put(block, field, value) == (field :> value) @@ block

\* isinstance(value, T) for the classes the validator names; bool is a
\* subclass of int
IsInstance(value, cls) ==
    CASE cls = "str" -> value.k = "str"
      [] cls = "int" -> value.k \in {"int", "bool"}
      [] cls = "int_or_float" -> value.k \in {"int", "bool", "float"}
      [] cls = "bool" -> value.k = "bool"
      [] cls = "list" -> value.k = "list"
      [] cls = "dict" -> value.k = "dict"
      [] OTHER -> FALSE

-----------------------------------------------------------------------------
(* Text helpers: str.lower, str.split, the `in` test, int(), str(int) *)

Digit == <<"0", "1", "2", "3", "4", "5", "6", "7", "8", "9">>

DigitChar(n) == Digit[n + 1]

IsDigit(c) == \E i \in 1..10 : Digit[i] = c

DigitVal(c) == (CHOOSE i \in 1..10 : Digit[i] = c) - 1

\* str(n) for n >= 0
RECURSIVE IntToStr(_)
IntToStr(n) == IF n < 10 THEN <<DigitChar(n)>>
               ELSE Append(IntToStr(n \div 10), DigitChar(n % 10))

\* int(s) for a string of decimal digits; callers check IsNumeral first
RECURSIVE StrToInt(_)
StrToInt(s) == IF Len(s) = 0 THEN 0
               ELSE 10 * StrToInt(SubSeq(s, 1, Len(s) - 1)) + DigitVal(s[Len(s)])

IsNumeral(s) == Len(s) > 0 /\ \A i \in 1..Len(s) : IsDigit(s[i])

LowerChar(c) ==
    CASE c = "A" -> "a"
      [] c = "B" -> "b"
      [] c = "E" -> "e"
      [] OTHER -> c

Lower(s) == [i \in 1..Len(s) |-> LowerChar(s[i])]

\* needle in hay
Contains(hay, needle) ==
    \E i \in 0..(Len(hay) - Len(needle)) :
        \A j \in 1..Len(needle) : hay[i + j] = needle[j]

\* s.split(sep) for a one-character separator: the pieces between separators
RECURSIVE SplitOn(_, _)
SplitOn(s, sep) ==
    IF \A i \in 1..Len(s) : s[i] # sep THEN <<s>>
    ELSE LET p == CHOOSE i \in 1..Len(s) :
                      s[i] = sep /\ \A j \in 1..(i - 1) : s[j] # sep
         IN <<SubSeq(s, 1, p - 1)>> \o SplitOn(SubSeq(s, p + 1, Len(s)), sep)

\* s.split(): the maximal runs of non-blank characters
SplitWhitespace(s) == SelectSeq(SplitOn(s, " "), LAMBDA piece : Len(piece) > 0)

\* sep.join(pieces)
RECURSIVE Join(_, _)
Join(pieces, sep) ==
    IF Len(pieces) = 0 THEN <<>>
    ELSE IF Len(pieces) = 1 THEN pieces[1]
    ELSE pieces[1] \o sep \o Join(Tail(pieces), sep)

-----------------------------------------------------------------------------
(* Schema validator: KnowledgeBlockManager._validate_block                  *)
(* A schema is [required |-> <<field, ...>>,                                *)
(*              properties |-> << [field |-> f, props |-> descriptor], ...>>]*)
(* in the order the JSON document lists them; a descriptor is a function    *)
(* that may or may not have a "type" key.                                   *)

NoError == [err |-> "none", field |-> "", expected |-> ""]

MissingField(f) == [err |-> "MissingField", field |-> f, expected |-> ""]

TypeMismatch(f, t) == [err |-> "TypeMismatch", field |-> f, expected |-> t]

\* one pass of the if/elif chain: TRUE when no branch raises
TypeAccepted(value, expected_type) ==
    CASE expected_type = "string" -> IsInstance(value, "str")
      [] expected_type = "number" -> IsInstance(value, "int_or_float")
      [] expected_type = "integer" -> IsInstance(value, "int")
      [] expected_type = "boolean" -> IsInstance(value, "bool")
      [] expected_type = "array" -> IsInstance(value, "list")
      [] expected_type = "object" -> IsInstance(value, "dict")
      [] OTHER -> TRUE

PropertyRaises(block, p) ==
    /\ Has(block, p.field)
    /\ "type" \in DOMAIN p.props
    /\ ~TypeAccepted(block[p.field], p.props["type"])

\* the ValueError _validate_block raises, or NoError when it returns
ValidateBlock(block, sch) ==
    LET missing == {i \in 1..Len(sch.required) : ~Has(block, sch.required[i])}
        wrong == {i \in 1..Len(sch.properties) : PropertyRaises(block, sch.properties[i])}
        Min(S) == CHOOSE i \in S : \A j \in S : i <= j
    IN IF missing # {} THEN MissingField(sch.required[Min(missing)])
       ELSE IF wrong # {}
            THEN LET p == sch.properties[Min(wrong)]
                 IN TypeMismatch(p.field, p.props["type"])
       ELSE NoError

-----------------------------------------------------------------------------
(* Validator runs: every record of ValRecords against every schema of       *)
(* ValSchemas                                                               *)

Typed(f, t) == [field |-> f, props |-> [type |-> t]]

Untyped(f) == [field |-> f, props |-> [description |-> "free"]]

ValTitles == {PyStr(<<"a">>), PyInt(5)}

ValCounts == {PyInt(2), PyBool(TRUE), PyFloat(3, 2), PyStr(<<"2">>)}

ValTags == {PyList(<<PyStr(<<"a">>)>>), PyDict(EmptyDict), PyTuple(<<>>)}

\* a field drawn from vals, or left out
Optional(f, vals) == {EmptyDict} \cup {(f :> x) : x \in vals}

ValRecords ==
    {a @@ b @@ c : a \in Optional("title", ValTitles),
                   b \in Optional("usage_count", ValCounts),
                   c \in Optional("tags", ValTags)}

ValRequired == {<<>>, <<"title">>, <<"title", "usage_count">>, <<"usage_count", "title">>}

ValCountProps == {Typed("usage_count", t) : t \in {"integer", "number", "boolean", "string", "null"}}
                 \cup {Untyped("usage_count")}

ValTagProps == {Typed("tags", "array"), Typed("tags", "object")}

ValSchemas ==
    {[required |-> r, properties |-> <<Typed("title", "string"), c, t>>] :
        r \in ValRequired, c \in ValCountProps, t \in ValTagProps}

ValIdle == [done |-> FALSE, result |-> NoError]

InitManagerIdle ==
    /\ schema = [required |-> <<>>, properties |-> <<>>]
    /\ store = EmptyDict
    /\ now = 0
    /\ ops = 0
    /\ last = [op |-> "none"]

InitConverterIdle ==
    /\ c_dir = FALSE
    /\ docs = <<>>
    /\ c_i = 1
    /\ c_pc = "idle"
    /\ c_files = EmptyDict
    /\ c_log = <<>>

InitValidate ==
    /\ InitManagerIdle
    /\ InitConverterIdle
    /\ \E r \in ValRecords, sch \in ValSchemas : v_in = [block |-> r, schema |-> sch]
    /\ v_out = ValIdle

Validate ==
    /\ ~v_out.done
    /\ v_out' = [done |-> TRUE, result |-> ValidateBlock(v_in.block, v_in.schema)]
    /\ UNCHANGED <<v_in, mgrVars, convVars>>

NextValidate == Validate

SpecValidate == InitValidate /\ [][NextValidate]_vars

-----------------------------------------------------------------------------
(* C7 *)

\* the value is of the JSON primitive type the schema names
OfPrimitiveType(value, t) ==
    CASE t = "string" -> value.k = "str"
      [] t = "number" -> value.k \in {"int", "float"}
      [] t = "integer" -> value.k = "int"
      [] t = "boolean" -> value.k = "bool"
      [] t = "array" -> value.k = "list"
      [] t = "object" -> value.k = "dict"
      [] OTHER -> TRUE

Primitive == {"string", "number", "integer", "boolean", "array", "object"}

ValMissing == {i \in 1..Len(v_in.schema.required) :
                  ~Has(v_in.block, v_in.schema.required[i])}

ValWrong == {i \in 1..Len(v_in.schema.properties) :
                LET p == v_in.schema.properties[i]
                IN /\ Has(v_in.block, p.field)
                   /\ "type" \in DOMAIN p.props
                   /\ p.props["type"] \in Primitive
                   /\ ~OfPrimitiveType(v_in.block[p.field], p.props["type"])}

\* C7: a finished validator run failed with MissingField when a required
\* field is absent, otherwise with TypeMismatch naming a field whose value is
\* not of its declared primitive type when there is one (a boolean is not an
\* integer or a number), and accepted the record only when there is neither.
C7_ValidatorStrict ==
    v_out.done =>
        /\ ValMissing # {} => v_out.result.err = "MissingField"
        /\ (ValMissing = {} /\ ValWrong # {}) =>
              /\ v_out.result.err = "TypeMismatch"
              /\ \E i \in ValWrong : v_in.schema.properties[i].field = v_out.result.field
        /\ v_out.result.err = "none" => (ValMissing = {} /\ ValWrong = {})

-----------------------------------------------------------------------------
(* The block store: files under data_dir/<domain>/<id>.json                 *)

defense == <<"d", "e", "f", "e", "n", "s", "e">>
proactive == <<"p", "r", "o", "a", "c", "t", "i", "v", "e">>
mindset == <<"m", "i", "n", "d", "s", "e", "t">>
efficiency == <<"e", "f", "f", "i", "c", "i", "e", "n", "c", "y">>
relationship == <<"r", "e", "l", "a", "t", "i", "o", "n", "s", "h", "i", "p">>

\* the directories _ensure_dirs creates, in the order get_block scans them
DomainOrder == <<defense, proactive, mindset, efficiency, relationship>>

DomainDirs == {DomainOrder[i] : i \in 1..Len(DomainOrder)}

NoDomain == <<>>    \* the domain argument left out (None)

\* Where a path lands.  The store holds the files of the five domain
\* directories; data_dir itself and its ancestors exist as directories, and no
\* other directory is assumed to.
AtRoot == [at |-> "root", name |-> <<>>]
Above == [at |-> "above", name |-> <<>>]
Missing == [at |-> "missing", name |-> <<>>]
AtDomain(d) == [at |-> "domain", name |-> d]

Sep == "/"
Here == <<".">>
Parent == <<".", ".">>

\* the directory reached from `here` by one path component
Step(here, c) ==
    IF here.at = "missing" THEN Missing
    ELSE IF c = <<>> \/ c = Here THEN here
    ELSE IF c = Parent THEN (IF here.at = "domain" THEN AtRoot ELSE Above)
    ELSE IF here.at = "root" /\ c \in DomainDirs THEN AtDomain(c)
    ELSE Missing

\* the directory reached from `here` by the path components `comps`
Walk(here, comps) ==
    LET reached[n \in 0..Len(comps)] ==
            IF n = 0 THEN here ELSE Step(reached[n - 1], comps[n])
    IN reached[Len(comps)]

Absolute(name) == Len(name) > 0 /\ name[1] = Sep

\* the file of the given stem in the directory `dir`
At(dir, stem) == [at |-> dir.at, key |-> <<dir.name, stem>>]

\* the path of the components `outer` of the domain and `parts` of the id, the
\* last of which names the file; an absolute component drops what precedes it
Resolve(domain_abs, id_abs, outer, parts) ==
    At(Walk(IF domain_abs \/ id_abs THEN Above ELSE AtRoot,
            (IF id_abs THEN <<>> ELSE outer) \o SubSeq(parts, 1, Len(parts) - 1)),
       parts[Len(parts)])

\* os.path.join(self.data_dir, domain, f"{block_id}.json") as the file system
\* resolves it: the directory it lands in and the stem of the file name there
FilePath(domain, id) ==
    Resolve(Absolute(domain), Absolute(id), SplitOn(domain, Sep), SplitOn(id, Sep))

\* the path is a file of the store
IsFile(st, path) == path.at = "domain" /\ path.key \in DOMAIN st

\* os.path.exists(file_path)
Exists(st, domain, id) == IsFile(st, FilePath(domain, id))

\* json.load(json.dump(value)): a tuple comes back as a list
RECURSIVE JsonRoundTrip(_)
JsonRoundTrip(x) ==
    CASE x.k \in {"list", "tuple"} ->
            PyList([i \in 1..Len(x.v) |-> JsonRoundTrip(x.v[i])])
      [] x.k = "dict" ->
            PyDict([f \in DOMAIN x.v |-> JsonRoundTrip(x.v[f])])
      [] OTHER -> x

JsonBlock(block) == JsonRoundTrip(PyDict(block)).v

\* _save_block: the store after the call and the exception it raised ("" when
\* it returned)
SaveBlock(st, block) ==
    IF ~Has(block, "domain") \/ ~Has(block, "id")
    THEN [store |-> st, raised |-> "KeyError"]
    ELSE IF block["domain"].k # "str"
    THEN [store |-> st, raised |-> "TypeError"]
    ELSE LET named == block["id"].k = "str"
             path == FilePath(block["domain"].v, IF named THEN block["id"].v ELSE <<>>)
             stem == IF named THEN path.key[2] ELSE block["id"].v
         IN CASE path.at = "missing" -> [store |-> st, raised |-> "FileNotFoundError"]
              [] path.at = "domain" ->
                    [store |-> (<<path.key[1], stem>> :> JsonBlock(block)) @@ st,
                     raised |-> ""]
              [] OTHER -> [store |-> st, raised |-> ""]

NotFound == [found |-> FALSE, block |-> EmptyDict]

\* a mutant whose scan keeps the last match instead of returning the first
GetBlockLastMatch(st, block_id, domain) ==
    IF domain # NoDomain
    THEN IF Exists(st, domain, block_id)
         THEN [found |-> TRUE, block |-> st[FilePath(domain, block_id).key]]
         ELSE NotFound
    ELSE LET hits == {i \in 1..Len(DomainOrder) : Exists(st, DomainOrder[i], block_id)}
         IN IF hits = {} THEN NotFound
            ELSE LET final == CHOOSE i \in hits : \A j \in hits : i >= j
                 IN [found |-> TRUE, block |-> st[FilePath(DomainOrder[final], block_id).key]]

\* the block read from the path when it is a file of the store
ReadFile(st, path) ==
    IF IsFile(st, path) THEN [found |-> TRUE, block |-> st[path.key]] ELSE NotFound

\* the first index of DomainOrder among `hits`
FirstOf(hits) == CHOOSE i \in hits : \A j \in hits : i <= j

\* the first directory in scan order that has the file, if any
FirstMatch(st, block_id, hits) ==
    IF hits = {} THEN NotFound
    ELSE ReadFile(st, FilePath(DomainOrder[FirstOf(hits)], block_id))

\* get_block: the file at the given domain, or the first one in scan order
GetBlock(st, block_id, domain) ==
    IF domain # NoDomain
    THEN ReadFile(st, FilePath(domain, block_id))
    ELSE FirstMatch(st, block_id,
                    {i \in 1..Len(DomainOrder) : Exists(st, DomainOrder[i], block_id)})

-----------------------------------------------------------------------------
(* generate_id *)

SlugChars == {"a", "b", "c", "d", "e", "f", "g", "h", "i", "j", "k", "l", "m",
              "n", "o", "p", "q", "r", "s", "t", "u", "v", "w", "x", "y", "z",
              "0", "1", "2", "3", "4", "5", "6", "7", "8", "9"}

\* re.sub(r'[^a-z0-9]+', '-', s): each maximal run of other characters
\* becomes one '-'
RECURSIVE Dashed(_)
Dashed(s) ==
    IF Len(s) = 0 THEN <<>>
    ELSE IF s[1] \in SlugChars THEN <<s[1]>> \o Dashed(Tail(s))
    ELSE IF Len(s) > 1 /\ s[2] \notin SlugChars THEN Dashed(Tail(s))
    ELSE <<"-">> \o Dashed(Tail(s))

\* s.strip('-')
RECURSIVE StripDash(_)
StripDash(s) ==
    IF Len(s) = 0 THEN s
    ELSE IF s[1] = "-" THEN StripDash(Tail(s))
    ELSE IF s[Len(s)] = "-" THEN StripDash(SubSeq(s, 1, Len(s) - 1))
    ELSE s

SlugLimit == 30

Slug(title) == LET t == StripDash(Dashed(Lower(title)))
               IN SubSeq(t, 1, IF Len(t) < SlugLimit THEN Len(t) ELSE SlugLimit)

\* datetime.isoformat(): the text of an instant; distinct instants give
\* distinct texts
IsoFormat(t) == IntToStr(t)

\* md5(f"{title}_{timestamp}").hexdigest()[:8], kept symbolic: the digest
\* is a function of the title and the instant, distinct for distinct inputs
ShortHash(title, t) == <<"#">> \o title \o <<"@">> \o IsoFormat(t)

GenerateId(title, t) == Slug(title) \o <<"_">> \o ShortHash(title, t)

-----------------------------------------------------------------------------
(* create_block *)

SetDefault(block, field, value) ==
    IF Has(block, field) THEN block ELSE Put(block, field, value)

InitialVersion == PyStr(<<"1", ".", "0">>)

\* lines 68-83: the defaults of the optional fields
WithDefaults(block) ==
    LET b1 == SetDefault(block, "version", InitialVersion)
        b2 == SetDefault(b1, "usage_count", PyInt(0))
        b3 == SetDefault(b2, "rating", PyFloat(0, 1))
        b4 == SetDefault(b3, "feedback", PyList(<<>>))
        b5 == SetDefault(b4, "variations", PyList(<<>>))
        b6 == SetDefault(b5, "examples", PyList(<<>>))
        b7 == SetDefault(b6, "tags", PyList(<<>>))
    IN SetDefault(b7, "related_blocks", PyList(<<>>))

\* "Validate and save" of a mutant that writes first and validates afterwards
SaveThenValidate(st, sch, block) ==
    LET verr == ValidateBlock(block, sch)
        saved == SaveBlock(st, block)
    IN IF saved.raised # ""
       THEN [store |-> st, raised |-> saved.raised, verr |-> NoError]
       ELSE [store |-> saved.store,
             raised |-> IF verr.err # "none" THEN "ValueError" ELSE "",
             verr |-> verr]

\* self._validate_block(block); self._save_block(block): the save is reached
\* only when the validator returned
ValidateAndSave(st, sch, block) ==
    LET verr == ValidateBlock(block, sch)
    IN IF verr.err # "none"
       THEN [store |-> st, raised |-> "ValueError", verr |-> verr]
       ELSE LET saved == SaveBlock(st, block)
            IN [store |-> saved.store, raised |-> saved.raised, verr |-> NoError]

\* create_block(block_data) with the clock read t1 by generate_id and t2 at
\* line 62.  ret is block_data as the caller holds it when the call ends.
CreateBlock(st, sch, data, t1, t2) ==
    IF ~Has(data, "id") /\ ~Has(data, "title")
    THEN [store |-> st, raised |-> "KeyError", verr |-> NoError, ret |-> data]
    ELSE IF ~Has(data, "id") /\ data["title"].k # "str"
    THEN [store |-> st, raised |-> "AttributeError", verr |-> NoError, ret |-> data]
    ELSE LET b1 == SetDefault(data, "id", PyStr(GenerateId(data["title"].v, t1)))
             b2 == SetDefault(b1, "created_at", PyStr(IsoFormat(t2)))
             b3 == Put(b2, "updated_at", PyStr(IsoFormat(t2)))
             block == WithDefaults(b3)
             out == ValidateAndSave(st, sch, block)
         IN [store |-> out.store, raised |-> out.raised, verr |-> out.verr,
             ret |-> block]

-----------------------------------------------------------------------------
(* update_block *)

\* a mutant that bumps the major number instead
NextVersionMajor(major, minor) ==
    IntToStr(major + 1) \o <<".">> \o IntToStr(minor)

\* f"{major}.{minor + 1}"
NextVersion(major, minor) ==
    IntToStr(major) \o <<".">> \o IntToStr(minor + 1)

\* major, minor = map(int, block['version'].split('.')) and line 162; the
\* numerals here are runs of decimal digits
BumpVersion(version) ==
    IF version.k # "str" THEN [raised |-> "AttributeError", value |-> version]
    ELSE LET parts == SplitOn(version.v, ".")
         IN IF Len(parts) # 2 \/ ~IsNumeral(parts[1]) \/ ~IsNumeral(parts[2])
            THEN [raised |-> "ValueError", value |-> version]
            ELSE [raised |-> "",
                  value |-> PyStr(NextVersion(StrToInt(parts[1]), StrToInt(parts[2])))]

\* block['updated_at'] = datetime.datetime.now().isoformat()
StampUpdate(block, t) == Put(block, "updated_at", PyStr(IsoFormat(t)))

UpdateBlock(st, sch, block_id, updates, t) ==
    LET got == GetBlock(st, block_id, NoDomain)
    IN IF ~got.found
       THEN [store |-> st, found |-> FALSE, raised |-> "", verr |-> NoError,
             ret |-> EmptyDict]
       ELSE LET b1 == StampUpdate(Merge(got.block, updates), t)
                bump == IF Has(b1, "version") THEN BumpVersion(b1["version"])
                        ELSE [raised |-> "", value |-> PyInt(0)]
            IN IF bump.raised # ""
               THEN [store |-> st, found |-> TRUE, raised |-> bump.raised,
                     verr |-> NoError, ret |-> b1]
               ELSE LET block == IF Has(b1, "version")
                                 THEN Put(b1, "version", bump.value) ELSE b1
                        out == ValidateAndSave(st, sch, block)
                    IN [store |-> out.store, found |-> TRUE, raised |-> out.raised,
                        verr |-> out.verr, ret |-> block]

-----------------------------------------------------------------------------
(* delete_block *)

\* a mutant that removes the id's file from every domain directory
RemoveEverywhere(st, path) ==
    [q \in {f \in DOMAIN st : f[2] # path[2]} |-> st[q]]

\* os.remove(file_path)
RemoveFile(st, path) == [q \in (DOMAIN st) \ {path} |-> st[q]]

DeleteBlock(st, block_id) ==
    LET got == GetBlock(st, block_id, NoDomain)
    IN IF ~got.found THEN [store |-> st, ok |-> FALSE, raised |-> ""]
       ELSE IF ~Has(got.block, "domain")
       THEN [store |-> st, ok |-> FALSE, raised |-> "KeyError"]
       ELSE IF got.block["domain"].k # "str"
       THEN [store |-> st, ok |-> FALSE, raised |-> "TypeError"]
       ELSE LET domain == got.block["domain"].v
            IN IF Exists(st, domain, block_id)
               THEN [store |-> RemoveFile(st, FilePath(domain, block_id).key),
                     ok |-> TRUE, raised |-> ""]
               ELSE [store |-> st, ok |-> FALSE, raised |-> ""]

-----------------------------------------------------------------------------
(* add_feedback and increment_usage *)

IsNumber(x) == x.k \in {"int", "bool", "float"}

\* a number as a fraction <<numerator, denominator>>
Frac(x) ==
    CASE x.k = "int" -> <<x.v, 1>>
      [] x.k = "bool" -> <<IF x.v THEN 1 ELSE 0, 1>>
      [] OTHER -> x.v

RECURSIVE FracSum(_)
FracSum(xs) ==
    IF Len(xs) = 0 THEN <<0, 1>>
    ELSE LET a == Frac(xs[1])
             b == FracSum(Tail(xs))
         IN <<a[1] * b[2] + b[1] * a[2], a[2] * b[2]>>

\* a mutant that takes the newest rating instead of recomputing the mean
MeanRatingLatest(ratings) ==
    LET x == Frac(ratings[Len(ratings)]) IN PyFloat(x[1], x[2])

\* sum(ratings) / len(ratings)
MeanRating(ratings) ==
    LET total == FracSum(ratings)
    IN PyFloat(total[1], total[2] * Len(ratings))

\* [f['rating'] for f in block['feedback'] if 'rating' in f], entries dicts
RatingsOf(entries) ==
    LET rated == SelectSeq(entries, LAMBDA f : Has(f.v, "rating"))
    IN [i \in 1..Len(rated) |-> rated[i].v["rating"]]

FeedbackTitle(block_id) == <<"f", "e", "e", "d", "b", "a", "c", "k", "_">> \o block_id

\* add_feedback(block_id, feedback) with the clock read t1 by generate_id and
\* t2 for the entry's date
AddFeedback(st, block_id, feedback, t1, t2) ==
    LET got == GetBlock(st, block_id, NoDomain)
    IN IF ~got.found
       THEN [store |-> st, found |-> FALSE, raised |-> "", ret |-> EmptyDict]
       ELSE LET entry == Put(Put(feedback, "id",
                                 PyStr(GenerateId(FeedbackTitle(block_id), t1))),
                             "date", PyStr(IsoFormat(t2)))
                b1 == SetDefault(got.block, "feedback", PyList(<<>>))
            IN IF b1["feedback"].k # "list"
               THEN [store |-> st, found |-> TRUE, raised |-> "AttributeError", ret |-> b1]
               ELSE LET entries == Append(b1["feedback"].v, PyDict(entry))
                        b2 == Put(b1, "feedback", PyList(entries))
                    IN IF \E i \in 1..Len(entries) : entries[i].k # "dict"
                       THEN [store |-> st, found |-> TRUE, raised |-> "TypeError", ret |-> b2]
                       ELSE LET ratings == RatingsOf(entries)
                            IN IF \E i \in 1..Len(ratings) : ~IsNumber(ratings[i])
                               THEN [store |-> st, found |-> TRUE, raised |-> "TypeError",
                                     ret |-> b2]
                               ELSE LET block == IF Len(ratings) > 0
                                                 THEN Put(b2, "rating", MeanRating(ratings))
                                                 ELSE b2
                                        saved == SaveBlock(st, block)
                                    IN [store |-> saved.store, found |-> TRUE,
                                        raised |-> saved.raised, ret |-> block]

\* block.get('usage_count', 0) + 1
PlusOne(x) ==
    CASE x.k = "int" -> PyInt(x.v + 1)
      [] x.k = "bool" -> PyInt((IF x.v THEN 1 ELSE 0) + 1)
      [] OTHER -> PyFloat(x.v[1] + x.v[2], x.v[2])

IncrementUsage(st, block_id) ==
    LET got == GetBlock(st, block_id, NoDomain)
    IN IF ~got.found
       THEN [store |-> st, found |-> FALSE, raised |-> "", ret |-> EmptyDict]
       ELSE LET old == IF Has(got.block, "usage_count") THEN got.block["usage_count"]
                       ELSE PyInt(0)
            IN IF ~IsNumber(old)
               THEN [store |-> st, found |-> TRUE, raised |-> "TypeError",
                     ret |-> got.block]
               ELSE LET block == Put(got.block, "usage_count", PlusOne(old))
                        saved == SaveBlock(st, block)
                    IN [store |-> saved.store, found |-> TRUE, raised |-> saved.raised,
                        ret |-> block]

-----------------------------------------------------------------------------
(* search_blocks *)

Blank == <<" ">>

\* ' '.join(tags) for a list of strings or a string; TRUE when it raises
JoinRaises(tags) ==
    /\ tags.k # "str"
    /\ \/ tags.k # "list"
       \/ \E i \in 1..Len(tags.v) : tags.v[i].k # "str"

JoinTags(tags) ==
    IF tags.k = "str" THEN Join([i \in 1..Len(tags.v) |-> <<tags.v[i]>>], Blank)
    ELSE Join([i \in 1..Len(tags.v) |-> tags.v[i].v], Blank)

FieldOr(block, field, default) == IF Has(block, field) THEN block[field] ELSE default

\* line 212 raises for a title or content without lower(), or tags that
\* cannot be joined
SearchTextRaises(block) ==
    \/ FieldOr(block, "title", PyStr(<<>>)).k # "str"
    \/ FieldOr(block, "content", PyStr(<<>>)).k # "str"
    \/ JoinRaises(FieldOr(block, "tags", PyList(<<>>)))

\* f"{title.lower()} {content.lower()} {' '.join(tags)}"
SearchText(block) ==
    Lower(FieldOr(block, "title", PyStr(<<>>)).v) \o Blank
    \o Lower(FieldOr(block, "content", PyStr(<<>>)).v) \o Blank
    \o JoinTags(FieldOr(block, "tags", PyList(<<>>)))

SearchTerms(query) == SplitWhitespace(Lower(query))

\* all(term in search_text for term in search_terms)
Matches(block, terms) ==
    \A i \in 1..Len(terms) : Contains(SearchText(block), terms[i])

\* the files the loops visit: every file of the given domain directory, or of
\* all five
Scanned(st, domain) ==
    {q \in DOMAIN st : q[1] \in (IF domain # NoDomain THEN {domain} ELSE DomainDirs)}

\* search_blocks: the blocks returned, as a set (os.listdir fixes no order)
SearchBlocks(st, query, domain) ==
    LET files == Scanned(st, domain)
    IN IF \E q \in files : SearchTextRaises(st[q])
       THEN [raised |-> "Error", results |-> {}]
       ELSE [raised |-> "",
             results |-> {st[q] : q \in {f \in files : Matches(st[f], SearchTerms(query))}}]

-----------------------------------------------------------------------------
(* The schema documents and the arguments of the model's calls *)

StdProperties ==
    <<Typed("id", "string"), Typed("title", "string"), Typed("type", "string"),
      Typed("domain", "string"), Typed("content", "string"), Typed("tags", "array"),
      Typed("version", "string"), Typed("usage_count", "integer"),
      Typed("rating", "number"), Typed("feedback", "array"),
      Typed("created_at", "string"), Typed("updated_at", "string")>>

SchemaStd == [required |-> <<"id", "title", "type", "domain", "content">>,
              properties |-> StdProperties]

MgrSchemas == {SchemaStd}

IdX == <<"x">>
IdY == <<"y">>
IdUpX == Parent \o <<Sep>> \o mindset \o <<Sep>> \o IdX    \* "../mindset/x"
TitleAb == <<"A", "b">>
TitleB == <<"b">>
ContentBE == <<"b", " ", "e">>
TypeTool == <<"t", "o", "o", "l">>

Core(title, domain) ==
    [title |-> PyStr(title), domain |-> PyStr(domain), type |-> PyStr(TypeTool),
     content |-> PyStr(ContentBE)]

CreatePayloads ==
    << Core(TitleAb, defense),
       Put(Put(Core(TitleAb, defense), "id", PyStr(IdX)),
           "tags", PyList(<<PyStr(<<"E", "a">>)>>)),
       Put(Put(Put(Core(TitleB, mindset), "id", PyStr(IdX)),
               "rating", PyInt(5)), "version", PyStr(<<"2", ".", "3">>)),
       Put(Core(TitleAb, mindset), "aliases", PyTuple(<<PyStr(<<"a">>)>>)),
       [id |-> PyStr(IdX), title |-> PyStr(TitleAb), domain |-> PyStr(defense),
        content |-> PyStr(ContentBE)],
       Put(Put(Core(TitleAb, defense), "id", PyStr(IdX)), "title", PyInt(5)),
       Put(Core(TitleB, <<"n", "o", "n", "e">>), "id", PyStr(IdY)),
       Put(Core(TitleB, defense), "id", PyStr(IdUpX)) >>

UpdatePartials ==
    << [content |-> PyStr(<<"E">>)],
       [version |-> PyStr(<<"3", ".", "7">>)],
       [rating |-> PyInt(3)],
       [id |-> PyStr(IdY)],
       [domain |-> PyStr(mindset)],
       [content |-> PyInt(5)],
       [version |-> PyStr(<<"a">>)] >>

Feedbacks ==
    << [rating |-> PyInt(3)], [rating |-> PyInt(5)], [comment |-> PyStr(<<"a">>)] >>

Queries == << <<"a", "b">>, <<"E", "a">>, <<"E", " ", " ", "a", "B">>, <<"b", "a">> >>

AskedDomains == {NoDomain, mindset}

\* the ids a caller asks for: those of the stored blocks, and IdX
TargetIds == {IdX} \cup {q[2] : q \in DOMAIN store}

\* the clock reading of the next call: every call starts at a later instant
\* than the one before it, and runs within that instant
Later == {now + 1}

-----------------------------------------------------------------------------
(* The manager's calls *)

Idle == [op |-> "none", id |-> <<>>, arg |-> EmptyDict, domain |-> NoDomain,
         query |-> <<>>, t |-> 0, before |-> EmptyDict, raised |-> "",
         verr |-> NoError, found |-> FALSE, ok |-> FALSE, ret |-> EmptyDict,
         results |-> {}]

\* A get or a search leaves store, now and ops alone and overwrites last, so
\* a call made after it reaches exactly the state the same call reaches when
\* made before it: the model takes the store-changing calls of a behaviour
\* first and one read last.  The reachable states are the same.
Reading == last.op \in {"get", "search"}

CanChange == ops < MaxOps /\ ~Reading

Init ==
    /\ schema \in MgrSchemas
    /\ store = EmptyDict
    /\ now = 0
    /\ ops = 0
    /\ last = Idle
    /\ InitConverterIdle
    /\ v_in = [block |-> EmptyDict, schema |-> SchemaStd]
    /\ v_out = ValIdle

Create ==
    /\ CanChange
    /\ \E i \in 1..Len(CreatePayloads), t \in Later :
          LET out == CreateBlock(store, schema, CreatePayloads[i], t, t)
          IN /\ store' = out.store
             /\ now' = t
             /\ last' = [Idle EXCEPT !.op = "create", !.arg = CreatePayloads[i],
                                     !.t = t, !.before = store,
                                     !.raised = out.raised, !.verr = out.verr,
                                     !.ret = out.ret,
                                     !.id = IF Has(out.ret, "id") THEN out.ret["id"].v
                                            ELSE <<>>]
    /\ ops' = ops + 1
    /\ UNCHANGED <<schema, valVars, convVars>>

Update ==
    /\ CanChange
    /\ \E id \in TargetIds, i \in 1..Len(UpdatePartials), t \in Later :
          LET out == UpdateBlock(store, schema, id, UpdatePartials[i], t)
          IN /\ store' = out.store
             /\ now' = t
             /\ last' = [Idle EXCEPT !.op = "update", !.id = id,
                                     !.arg = UpdatePartials[i], !.t = t,
                                     !.before = store, !.raised = out.raised,
                                     !.verr = out.verr, !.found = out.found,
                                     !.ret = out.ret]
    /\ ops' = ops + 1
    /\ UNCHANGED <<schema, valVars, convVars>>

Delete ==
    /\ CanChange
    /\ \E id \in TargetIds, t \in Later :
          LET out == DeleteBlock(store, id)
          IN /\ store' = out.store
             /\ now' = t
             /\ last' = [Idle EXCEPT !.op = "delete", !.id = id, !.t = t,
                                     !.before = store, !.raised = out.raised,
                                     !.ok = out.ok]
    /\ ops' = ops + 1
    /\ UNCHANGED <<schema, valVars, convVars>>

Feedback ==
    /\ CanChange
    /\ \E id \in TargetIds, i \in 1..Len(Feedbacks), t \in Later :
          LET out == AddFeedback(store, id, Feedbacks[i], t, t)
          IN /\ store' = out.store
             /\ now' = t
             /\ last' = [Idle EXCEPT !.op = "add_feedback", !.id = id,
                                     !.arg = Feedbacks[i], !.t = t,
                                     !.before = store, !.raised = out.raised,
                                     !.found = out.found, !.ret = out.ret]
    /\ ops' = ops + 1
    /\ UNCHANGED <<schema, valVars, convVars>>

Usage ==
    /\ CanChange
    /\ \E id \in TargetIds, t \in Later :
          LET out == IncrementUsage(store, id)
          IN /\ store' = out.store
             /\ now' = t
             /\ last' = [Idle EXCEPT !.op = "increment_usage", !.id = id, !.t = t,
                                     !.before = store, !.raised = out.raised,
                                     !.found = out.found, !.ret = out.ret]
    /\ ops' = ops + 1
    /\ UNCHANGED <<schema, valVars, convVars>>

Get ==
    /\ ~Reading
    /\ \E id \in TargetIds, d \in AskedDomains :
          LET out == GetBlock(store, id, d)
          IN last' = [Idle EXCEPT !.op = "get", !.id = id, !.domain = d, !.t = now,
                                  !.before = store, !.found = out.found,
                                  !.ret = out.block]
    /\ UNCHANGED <<schema, store, now, ops, valVars, convVars>>

Search ==
    /\ ~Reading
    /\ \E i \in 1..Len(Queries), d \in AskedDomains :
          LET out == SearchBlocks(store, Queries[i], d)
          IN last' = [Idle EXCEPT !.op = "search", !.query = Queries[i],
                                  !.domain = d, !.t = now, !.before = store,
                                  !.raised = out.raised, !.results = out.results]
    /\ UNCHANGED <<schema, store, now, ops, valVars, convVars>>

Next == Create \/ Update \/ Delete \/ Feedback \/ Usage \/ Get \/ Search

Spec == Init /\ [][Next]_vars

-----------------------------------------------------------------------------
(* Claims about the block store, checked under Spec *)

Succeeded == last.raised = ""

\* the block the last call looked up, as it was stored before the call
Before == GetBlock(last.before, last.id, NoDomain)

\* the file a successful create/update/add_feedback/increment_usage wrote
WrittenPath == FilePath(last.ret["domain"].v, last.ret["id"].v).key

Written == store[WrittenPath]

Ids(st) == {q[2] : q \in DOMAIN st}

\* C1: when validation fails in create or update the call raises and the
\* files and their contents are what they were before the call; a create or
\* update that changed the store had a record the validator accepts.
C1_FailedValidationWritesNothing ==
    last.op \in {"create", "update"} =>
        /\ last.verr.err # "none" => (last.raised = "ValueError" /\ store = last.before)
        /\ store # last.before => ValidateBlock(last.ret, schema).err = "none"

C1_Witness ==
    /\ last.op = "update"
    /\ last.found
    /\ last.verr.err = "TypeMismatch"
    /\ last.before # EmptyDict

RECURSIVE RatingTotal(_)
RatingTotal(entries) ==
    IF Len(entries) = 0 THEN 0
    ELSE (IF Has(entries[1].v, "rating") THEN entries[1].v["rating"].v ELSE 0)
         + RatingTotal(Tail(entries))

RatedCount(entries) == Len(SelectSeq(entries, LAMBDA f : Has(f.v, "rating")))

\* rating = total / count, as an equation between integers (the ratings of
\* the model's feedback entries are integers); 0.0 when nothing is rated
IsMeanOf(rating, entries) ==
    IF RatedCount(entries) = 0 THEN Frac(rating)[1] = 0
    ELSE Frac(rating)[1] * RatedCount(entries) = RatingTotal(entries) * Frac(rating)[2]

\* C2 as stated: every persisted block's rating is the mean of the ratings
\* its feedback entries carry, 0.0 when none carries one.
C2_RatingAlwaysMean ==
    \A q \in DOMAIN store : IsMeanOf(store[q]["rating"], store[q]["feedback"].v)

\* C2 amended: a successful add_feedback persists the mean of the rated
\* entries when there is one and the looked-up block's rating otherwise; a
\* successful create whose payload has neither rating nor feedback persists
\* rating 0.0 with no feedback.
C2_RatingRecomputedByFeedback ==
    /\ (last.op = "add_feedback" /\ last.found /\ Succeeded) =>
          IF RatedCount(Written["feedback"].v) > 0
          THEN IsMeanOf(Written["rating"], Written["feedback"].v)
          ELSE Written["rating"] = Before.block["rating"]
    /\ (last.op = "create" /\ Succeeded
          /\ ~Has(last.arg, "rating") /\ ~Has(last.arg, "feedback")) =>
          /\ Written["rating"] = PyFloat(0, 1)
          /\ IsMeanOf(Written["rating"], Written["feedback"].v)

C2_Witness ==
    /\ last.op = "add_feedback"
    /\ last.found
    /\ Succeeded
    /\ RatedCount(Written["feedback"].v) = 2
    /\ Written["rating"] = PyFloat(4, 1)

ParseVersion(version) ==
    LET parts == SplitOn(version.v, ".")
    IN [major |-> StrToInt(parts[1]), minor |-> StrToInt(parts[2])]

UpdateDone == last.op = "update" /\ last.found /\ Succeeded

RECURSIVE JsonNative(_)
JsonNative(x) ==
    CASE x.k = "tuple" -> FALSE
      [] x.k = "list" -> \A i \in 1..Len(x.v) : JsonNative(x.v[i])
      [] x.k = "dict" -> \A f \in DOMAIN x.v : JsonNative(x.v[f])
      [] OTHER -> TRUE

CreateDone == last.op = "create" /\ Succeeded

\* a file with this id lies in a directory scanned before the given one
InEarlierDomain(st, id, domain) ==
    \E i, j \in 1..Len(DomainOrder) :
        i < j /\ DomainOrder[j] = domain /\ Exists(st, DomainOrder[i], id)

DeleteOfExisting == last.op = "delete" /\ Before.found

\* C5 as stated: delete(id) of an id that get(id) finds removes the file,
\* returns true, and get(id) right afterwards finds nothing.
C5_DeletedIsGone ==
    DeleteOfExisting =>
        /\ last.ok
        /\ DOMAIN store # DOMAIN last.before
        /\ ~GetBlock(store, last.id, NoDomain).found

\* the files get_block(id) can find: <d>/<id>.json over the five directories
Holders(st, id) ==
    {FilePath(d, id).key : d \in {e \in DomainDirs : Exists(st, e, id)}}

\* C5 amended: delete(id) of an id for which get(id) finds a block b looks
\* for the file <b.domain>/<id>.json.  When that file exists, which it does
\* whenever b's own file is the one at <b.domain>/<id>.json, exactly that file
\* is removed and true is returned; otherwise nothing is removed and false is
\* returned.  get(id) right afterwards finds nothing when no directory holds
\* a file <id>.json any more, and otherwise finds the block of one that does.
C5_DeleteRemovesFirstMatch ==
    DeleteOfExisting =>
        LET domain == Before.block["domain"].v
            path == FilePath(domain, last.id).key
            left == IF last.ok THEN Holders(last.before, last.id) \ {path}
                    ELSE Holders(last.before, last.id)
            after == GetBlock(store, last.id, NoDomain)
        IN /\ last.ok <=> Exists(last.before, domain, last.id)
           /\ (Exists(last.before, domain, last.id)
                 /\ last.before[path] = Before.block) => last.ok
           /\ store = IF last.ok
                      THEN [q \in (DOMAIN last.before) \ {path} |-> last.before[q]]
                      ELSE last.before
           /\ after.found <=> left # {}
           /\ after.found => after.block \in {last.before[q] : q \in left}

C5_Witness ==
    /\ DeleteOfExisting
    /\ last.ok
    /\ ~GetBlock(store, last.id, NoDomain).found
    /\ store # EmptyDict

\* the search text with the tags lower-cased as well
LowerCasedSearchText(block) ==
    Lower(FieldOr(block, "title", PyStr(<<>>)).v) \o Blank
    \o Lower(FieldOr(block, "content", PyStr(<<>>)).v) \o Blank
    \o Lower(JoinTags(FieldOr(block, "tags", PyList(<<>>))))

\* C6: a search returns exactly the blocks of the target directories for
\* which every whitespace-separated token of the lower-cased query is a
\* substring of the lower-cased title, content and tags.
C6_SearchCaseInsensitive ==
    (last.op = "search" /\ Succeeded) =>
        last.results =
            {store[q] : q \in {f \in Scanned(store, last.domain) :
                \A i \in 1..Len(SearchTerms(last.query)) :
                    Contains(LowerCasedSearchText(store[f]), SearchTerms(last.query)[i])}}

MutationDone ==
    /\ last.op \in {"update", "add_feedback", "increment_usage"}
    /\ last.found
    /\ Succeeded

\* C8: a successful update, add_feedback or increment_usage persists a
\* record whose id is the id it was looked up by, and no file with another
\* id appears.
C8_IdImmutable ==
    MutationDone =>
        /\ last.ret["id"].v = last.id
        /\ Ids(store) \subseteq Ids(last.before)

\* C9: a successful update, add_feedback or increment_usage persists an
\* updated_at equal to the instant of the call and the created_at the block
\* had.
C9_UpdatedAtRefreshed ==
    MutationDone =>
        /\ Written["updated_at"] = PyStr(IsoFormat(last.t))
        /\ Written["created_at"] = Before.block["created_at"]

\* the stored files whose record names another directory or another file stem
\* than the ones the file lies at
Misplaced(st) ==
    {q \in DOMAIN st : st[q]["domain"] # PyStr(q[1]) \/ st[q]["id"] # PyStr(q[2])}

\* C11: in every reachable store, each file <domain>/<id>.json holds a record
\* whose domain field is that directory's name and whose id field is that
\* file name's stem.
C11_PathMatchesContent == Misplaced(store) = {}

-----------------------------------------------------------------------------
(* The toolkit converter.                                                   *)
(* A title is a sequence of symbols: the characters "-" and " " and, as one *)
(* symbol each, the labels of domain_map and type_map, written here in      *)
(* pinyin (baojia for the label of line 27).  A document is                 *)
(*   [readable |-> whether open/read succeed,                               *)
(*    heading  |-> whether a version-suffixed heading line matches line 73, *)
(*    title    |-> the heading text that match captures,                    *)
(*    body, context |-> the extracted content and scenario text]            *)

\* domain_map.get(key, "defense")
DomainMapGet(key) ==
    CASE key = <<"zhudong">> -> proactive
      [] key = <<"guanxi">> -> relationship
      [] key = <<"hetong">> -> defense
      [] key = <<"xinzhi">> -> mindset
      [] key = <<"baojia">> -> defense
      [] key = <<"xiaolv">> -> efficiency
      [] key = <<"goutong">> -> defense
      [] OTHER -> defense

TypeModule == <<"m", "o", "d", "u", "l", "e">>
TypeGuide == <<"g", "u", "i", "d", "e">>

ModuleLabels ==
    {"gerenpinpaijianshe", "neirongyingxiaocelue", "kehukaifacelue",
     "tonghangwangluojianshe", "changqikehuweihu", "neizaidonglijianshe",
     "chengzhangxingsiwei", "kangyanengliyuzhiyejuandaiyufang",
     "gongzuoliuchengbiaozhunhua", "shijianguanliyujinglifenpei"}

GuideLabels == {"congzhixingdaoguwen"}

ToolLabels ==
    {"jiazhidingjiacelue", "fukuanjiedianshezhi", "xiugaicishuxianzhi",
     "zhuzuoquanguishujieding", "weiyuezerenjieding", "juecekuangjia",
     "dijiajingzhengyingdui", "yingduiwuyusuanshitan", "jinjixiangmujiajia",
     "kehutuoyanfukuan", "yingduimianfeishigao", "xiangmufanweimanyan"}

\* type_map.get(key, "module")
TypeMapGet(key) ==
    IF Len(key) = 1 /\ key[1] \in ToolLabels THEN TypeTool
    ELSE IF Len(key) = 1 /\ key[1] \in GuideLabels THEN TypeGuide
    ELSE IF Len(key) = 1 /\ key[1] \in ModuleLabels THEN TypeModule
    ELSE TypeModule

\* s.strip()
RECURSIVE Strip(_)
Strip(s) ==
    IF Len(s) = 0 THEN s
    ELSE IF s[1] = " " THEN Strip(Tail(s))
    ELSE IF s[Len(s)] = " " THEN Strip(SubSeq(s, 1, Len(s) - 1))
    ELSE s

ConvSlugLimit == 20

\* converter.generate_id: the title's slug and the first 8 characters of a
\* uuid4, here the symbol sequence uuid
ConvGenerateId(title, uuid) ==
    LET t == StripDash(Dashed(Lower(title)))
    IN SubSeq(t, 1, IF Len(t) < ConvSlugLimit THEN Len(t) ELSE ConvSlugLimit)
       \o <<"_">> \o uuid

Untitled == <<"U", "n", "t", "i", "t", "l", "e", "d">>

\* parse_toolkit: the exception it raises ("" when it returns) and the block
\* it returns; the two timestamps of lines 115-116 are left out
ParseToolkit(doc, uuid) ==
    IF ~doc.readable THEN [raised |-> "OSError", block |-> EmptyDict]
    ELSE LET title == IF doc.heading THEN doc.title ELSE Untitled
             parts == SplitOn(title, "-")
         IN IF Len(parts) < 2 THEN [raised |-> "IndexError", block |-> EmptyDict]
            ELSE LET domain_key == Strip(parts[1])
                     type_key == Strip(parts[2])
                 IN [raised |-> "",
                     block |->
                       [id |-> PyStr(ConvGenerateId(title, uuid)),
                        title |-> PyStr(title),
                        type |-> PyStr(TypeMapGet(type_key)),
                        domain |-> PyStr(DomainMapGet(domain_key)),
                        subdomain |-> PyStr(type_key),
                        content |-> PyStr(doc.body),
                        context |-> PyStr(doc.context),
                        variations |-> PyList(<<>>),
                        examples |-> PyList(<<>>),
                        tags |-> PyList(<<PyStr(domain_key), PyStr(type_key)>>),
                        related_blocks |-> PyList(<<>>),
                        skill_tree |-> PyDict(EmptyDict),
                        version |-> InitialVersion,
                        usage_count |-> PyInt(0),
                        rating |-> PyFloat(0, 1),
                        feedback |-> PyList(<<>>)]]

\* what an output file holds after open(..., 'w') created it and json.dump
\* did not finish
Truncated == [truncated |-> PyBool(TRUE)]

\* lines 157-161 for a parsed block: open() fails and nothing is created, or
\* it creates the file and json.dump fails part-way, or both succeed
WriteOutput(files, block, io) ==
    LET path == <<block["domain"].v, block["id"].v>>
    IN CASE io = "open_fails" -> [files |-> files, raised |-> "OSError"]
         [] io = "dump_fails" -> [files |-> (path :> Truncated) @@ files,
                                 raised |-> "OSError"]
         [] OTHER -> [files |-> (path :> JsonBlock(block)) @@ files, raised |-> ""]

IoOutcomes == {"ok", "open_fails", "dump_fails"}

\* one pass of the loop body, lines 148-167: the except clause takes every
\* exception of the try block
ConvertOne(files, doc, uuid, io) ==
    LET parsed == ParseToolkit(doc, uuid)
    IN IF parsed.raised # ""
       THEN [files |-> files, outcome |-> "parse_failed", raised |-> parsed.raised]
       ELSE LET wrote == WriteOutput(files, parsed.block, io)
            IN [files |-> wrote.files,
                outcome |-> IF wrote.raised = "" THEN "converted" ELSE "write_failed",
                raised |-> wrote.raised]

\* a variant whose loop ends at the first exception
AbortOnFailure(i, raised) == IF raised = "" THEN i + 1 ELSE Len(docs) + 1

\* the index the for loop takes after an iteration, whatever it raised
NextIndex(i, raised) == i + 1

Labelled(a, b) == <<a, "-", b>>

DocBody == <<"b">>

Doc(readable, heading, title) ==
    [readable |-> readable, heading |-> heading, title |-> title,
     body |-> DocBody, context |-> <<>>]

DocKinds ==
    { Doc(TRUE, TRUE, Labelled("baojia", "jiazhidingjiacelue")),
      Doc(TRUE, TRUE, <<"xiaolv", " ", "-", " ", "shijianguanliyujinglifenpei">>),
      Doc(TRUE, TRUE, <<"x", "-", "y", "-", "z">>),
      Doc(TRUE, TRUE, <<"n", "o", "t", "e", "s">>),
      Doc(TRUE, FALSE, <<>>),
      Doc(FALSE, TRUE, Labelled("zhudong", "congzhixingdaoguwen")) }

RECURSIVE DocLists(_)
DocLists(n) ==
    IF n = 0 THEN {<<>>}
    ELSE DocLists(n - 1)
         \cup {Append(l, d) : l \in {x \in DocLists(n - 1) : Len(x) = n - 1}, d \in DocKinds}

Uuids == {<<"u", "1">>, <<"u", "2">>}

InitConvert ==
    /\ InitManagerIdle
    /\ v_in = [block |-> EmptyDict, schema |-> SchemaStd]
    /\ v_out = ValIdle
    /\ c_dir \in BOOLEAN
    /\ docs \in DocLists(MaxDocs)
    /\ c_dir = FALSE => docs = <<>>
    /\ c_i = 1
    /\ c_pc = "start"
    /\ c_files = EmptyDict
    /\ c_log = <<>>

\* lines 126-144: return when the input directory is missing, else list the
\* documents and make the output directories
Start ==
    /\ c_pc = "start"
    /\ c_pc' = IF c_dir THEN "loop" ELSE "done"
    /\ UNCHANGED <<c_dir, docs, c_i, c_files, c_log, mgrVars, valVars>>

Convert ==
    /\ c_pc = "loop"
    /\ c_i <= Len(docs)
    /\ \E uuid \in Uuids, io \in IoOutcomes :
          LET out == ConvertOne(c_files, docs[c_i], uuid, io)
          IN /\ c_files' = out.files
             /\ c_log' = Append(c_log, [doc |-> c_i, outcome |-> out.outcome,
                                        raised |-> out.raised, files |-> out.files])
             /\ c_i' = NextIndex(c_i, out.raised)
    /\ UNCHANGED <<c_dir, docs, c_pc, mgrVars, valVars>>

Finish ==
    /\ c_pc = "loop"
    /\ c_i > Len(docs)
    /\ c_pc' = "done"
    /\ UNCHANGED <<c_dir, docs, c_i, c_files, c_log, mgrVars, valVars>>

NextConvert == Start \/ Convert \/ Finish

\* main() is one sequential run: it takes its next step whenever it has one
SpecConvert == InitConvert /\ [][NextConvert]_vars /\ WF_vars(NextConvert)

-----------------------------------------------------------------------------
(* Claims about a converter run, checked under SpecConvert *)

\* the output files before the k-th iteration of the loop
FilesBefore(k) == IF k = 1 THEN EmptyDict ELSE c_log[k - 1].files

\* the document cannot be read, has no version-suffixed heading, or has a
\* title without "-"
Unparseable(doc) ==
    \/ ~doc.readable
    \/ ~doc.heading
    \/ \A i \in 1..Len(doc.title) : doc.title[i] # "-"

\* the documents are attempted once each, in the order of the list, and a
\* finished run has attempted them all
AttemptedInOrder ==
    /\ Len(c_log) = c_i - 1
    /\ c_i <= Len(docs) + 1
    /\ \A k \in 1..Len(c_log) : c_log[k].doc = k
    /\ (c_pc = "done" /\ c_dir) => Len(c_log) = Len(docs)

\* whether a document is parsed depends on that document alone
ParsedOnItsOwn ==
    \A k \in 1..Len(c_log) :
        (c_log[k].outcome = "parse_failed") <=> Unparseable(docs[k])

\* C10 as stated (its safety part): every document is attempted once and in
\* order, a failure of one document does not keep a later one from being
\* parsed, and an iteration that failed wrote no output file.
C10_FailureWritesNoFile ==
    /\ AttemptedInOrder
    /\ ParsedOnItsOwn
    /\ \A k \in 1..Len(c_log) :
          c_log[k].outcome # "converted" => c_log[k].files = FilesBefore(k)

C10_IterationEffects ==
    \A k \in 1..Len(c_log) :
        LET e == c_log[k]
            before == FilesBefore(k)
        IN CASE e.outcome = "parse_failed" -> e.files = before
             [] e.outcome = "write_failed" ->
                    \/ e.files = before
                    \/ \E u \in Uuids :
                          LET b == ParseToolkit(docs[k], u).block
                          IN e.files = (<<b["domain"].v, b["id"].v>> :> Truncated) @@ before
             [] OTHER ->
                    \E u \in Uuids :
                        LET b == ParseToolkit(docs[k], u).block
                        IN e.files = (<<b["domain"].v, b["id"].v>> :> JsonBlock(b)) @@ before

\* the steps main() has left: the documents not yet attempted, then the end
StepsLeft ==
    CASE c_pc = "start" -> Len(docs) + 2
      [] c_pc = "loop" -> Len(docs) + 2 - c_i
      [] OTHER -> 0

\* a run that has not ended has a next step
NotStuck ==
    \/ c_pc = "done"
    \/ c_pc = "start"
    \/ c_pc = "loop" /\ c_i <= Len(docs) /\ Uuids # {} /\ IoOutcomes # {}
    \/ c_pc = "loop" /\ c_i > Len(docs)

\* C10 amended: every document is attempted once and in order and the run
\* reaches its end (it is never stuck before the end and every step leaves
\* fewer steps to take); a document that cannot be read or parsed, or whose
\* output file cannot be opened, leaves the output files as they were, a
\* failure while the output is being written leaves at most a truncated file
\* for that document, and every parseable document is parsed and, unless its
\* own write fails, written, whatever happened to the documents before it.
C10_BatchSurvivesFailures ==
    /\ [](AttemptedInOrder /\ ParsedOnItsOwn /\ C10_IterationEffects /\ NotStuck)
    /\ [][StepsLeft' < StepsLeft]_vars

\* a finished run in which a document failed to parse and a later one was
\* written to defense as a tool
C10_Witness ==
    /\ c_pc = "done"
    /\ \E k, j \in 1..Len(c_log) :
          /\ k < j
          /\ c_log[k].outcome = "parse_failed"
          /\ c_log[k].raised = "IndexError"
          /\ c_log[j].outcome = "converted"
          /\ \E q \in DOMAIN c_files :
                /\ q \notin DOMAIN FilesBefore(j)
                /\ q[1] = defense
                /\ c_files[q]["type"].v = TypeTool

====
